---- MODULE Spec2Model ----
(***************************************************************************)
(* loco-mcp: the tool surface (src/src/index.ts) and the API adapter       *)
(* LocoClient (src/unnamed/part_000, the loco-client module index.ts       *)
(* imports).                                                               *)
(*                                                                         *)
(* A JavaScript string is a sequence of one-character strings.  A          *)
(* JavaScript value is a tagged record [t, v]: undefined, null, a string,  *)
(* a number, an array or an object (a sequence of <<key, value>> pairs in  *)
(* insertion order).                                                       *)
(***************************************************************************)
EXTENDS Naturals, Sequences, FiniteSets

\* ------------------------------------------------------------------ bounds

\* tool invocations the host may have in progress at once
NumInvocations == 2
\* longest asset identifier drawn over PathAlphabet
MaxIdLen == 2
\* longest response body drawn over BodyAlphabet
MaxBodyLen == 2

\* -------------------------------------------------------------- characters

\* The grave accent, code 96.
Grave == "<grave>"

\* The printable ASCII characters, code 32 to 126, in code order.
Ascii ==
  << " ", "!", "\"", "#", "$", "%", "&", "'", "(", ")", "*", "+", ",", "-",
     ".", "/", "0", "1", "2", "3", "4", "5", "6", "7", "8", "9", ":", ";",
     "<", "=", ">", "?", "@", "A", "B", "C", "D", "E", "F", "G", "H", "I",
     "J", "K", "L", "M", "N", "O", "P", "Q", "R", "S", "T", "U", "V", "W",
     "X", "Y", "Z", "[", "\\", "]", "^", "_", Grave, "a", "b", "c", "d", "e",
     "f", "g", "h", "i", "j", "k", "l", "m", "n", "o", "p", "q", "r", "s",
     "t", "u", "v", "w", "x", "y", "z", "{", "|", "}", "~" >>

\* A UTF-16 code unit that is half of a surrogate pair, standing alone.
LoneSurrogate == "<D800>"

\* The line feed, code 10.
LF == "\n"

Range(s) == { s[n] : n \in DOMAIN s }

CharCode(c) == IF c = LF THEN 10 ELSE 31 + (CHOOSE n \in DOMAIN Ascii : Ascii[n] = c)

CharOfCode(n) == IF n = 10 THEN LF ELSE Ascii[n - 31]

IsPrintable(n) == n \in 32..126

HexDigits ==
  << "0", "1", "2", "3", "4", "5", "6", "7", "8", "9", "A", "B", "C", "D", "E", "F" >>

Digits == { "0", "1", "2", "3", "4", "5", "6", "7", "8", "9" }

Letters == { Ascii[n] : n \in (34..59) \cup (66..91) }

PercentByte(n) == << "%", HexDigits[(n \div 16) + 1], HexDigits[(n % 16) + 1] >>

RECURSIVE Flatten(_)
Flatten(ss) == IF ss = << >> THEN << >> ELSE Head(ss) \o Flatten(Tail(ss))

\* Number.prototype.toString of a non-negative integer.
RECURSIVE Decimal(_)
Decimal(n) ==
  IF n < 10 THEN << Ascii[17 + n] >> ELSE Decimal(n \div 10) \o << Ascii[17 + (n % 10)] >>

\* ---------------------------------------------------------- URL encodings

\* encodeURIComponent leaves these alone: A-Z a-z 0-9 - _ . ! ~ * ' ( )
UriUnreserved == Letters \cup Digits \cup { "-", "_", ".", "!", "~", "*", "'", "(", ")" }

\* encodeURIComponent throws a URIError on a lone surrogate.
UriMalformed(s) == LoneSurrogate \in Range(s)

\* encodeURIChar with nothing escaped
encodeURICharVerbatim(c) == << c >>

encodeURIChar(c) == IF c \in UriUnreserved THEN << c >> ELSE PercentByte(CharCode(c))

\* encodeURIComponent(s), for s without a lone surrogate
encodeURIComponent(s) == Flatten([ n \in DOMAIN s |-> encodeURIChar(s[n]) ])

\* The application/x-www-form-urlencoded serializer of URLSearchParams:
\* it leaves A-Z a-z 0-9 * - . _ alone, writes a space as "+", and converts a
\* lone surrogate to U+FFFD (EF BF BD in UTF-8) first.
FormUnreserved == Letters \cup Digits \cup { "*", "-", ".", "_" }

formEncodeChar(c) ==
  IF c \in FormUnreserved THEN << c >>
  ELSE IF c = " " THEN << "+" >>
  ELSE IF c = LoneSurrogate THEN PercentByte(239) \o PercentByte(191) \o PercentByte(189)
  ELSE PercentByte(CharCode(c))

formEncode(s) == Flatten([ n \in DOMAIN s |-> formEncodeChar(s[n]) ])

\* ---------------------------------------------------------- URL decodings
\* What the remote service reads back.  A decoding yields [ok, val];
\* ok = FALSE is a malformed escape or a byte outside ASCII.

IsHex(c) == \E n \in DOMAIN HexDigits : HexDigits[n] = c
HexValue(c) == (CHOOSE n \in DOMAIN HexDigits : HexDigits[n] = c) - 1

RECURSIVE PercentDecode(_, _, _)
PercentDecode(s, plusIsSpace, acc) ==
  IF s = << >> THEN [ok |-> TRUE, val |-> acc]
  ELSE IF Head(s) = "%" THEN
    IF Len(s) >= 3 /\ IsHex(s[2]) /\ IsHex(s[3]) /\ IsPrintable(16 * HexValue(s[2]) + HexValue(s[3]))
    THEN PercentDecode(SubSeq(s, 4, Len(s)), plusIsSpace,
                       Append(acc, CharOfCode(16 * HexValue(s[2]) + HexValue(s[3]))))
    ELSE [ok |-> FALSE, val |-> << >>]
  ELSE IF plusIsSpace /\ Head(s) = "+" THEN PercentDecode(Tail(s), plusIsSpace, Append(acc, " "))
  ELSE PercentDecode(Tail(s), plusIsSpace, Append(acc, Head(s)))

decodeURIComponent(s) == PercentDecode(s, FALSE, << >>)
formDecode(s) == PercentDecode(s, TRUE, << >>)

\* s split at every occurrence of the character sep
RECURSIVE SplitAcc(_, _, _)
SplitAcc(s, sep, cur) ==
  IF s = << >> THEN << cur >>
  ELSE IF Head(s) = sep THEN << cur >> \o SplitAcc(Tail(s), sep, << >>)
  ELSE SplitAcc(Tail(s), sep, Append(cur, Head(s)))

Split(s, sep) == SplitAcc(s, sep, << >>)

\* ------------------------------------------------------- JavaScript values

Undefined == [t |-> "undefined", v |-> << >>]
Null == [t |-> "null", v |-> << >>]
Bool(b) == [t |-> "boolean", v |-> b]
Num(n) == [t |-> "number", v |-> n]
Str(s) == [t |-> "string", v |-> s]
Arr(vs) == [t |-> "array", v |-> vs]
\* ps: the own properties, << key, value >> pairs in insertion order
Obj(ps) == [t |-> "object", v |-> ps]

RECURSIVE Join(_, _)
Join(ss, sep) ==
  IF ss = << >> THEN << >>
  ELSE IF Len(ss) = 1 THEN ss[1]
  ELSE ss[1] \o sep \o Join(Tail(ss), sep)

StartsWith(s, p) == Len(s) >= Len(p) /\ SubSeq(s, 1, Len(p)) = p

Drop(s, n) == SubSeq(s, n + 1, Len(s))

\* ---------------------------------------------------------------- JSON.parse
\* JSON.parse over the grammar that the drawn bodies exercise: white space
\* (space, line feed), null, true, false, non-negative integers without
\* sign, fraction or exponent, strings with the escapes \" \\ \/ \n, arrays and
\* objects whose keys are not integer-like.  A parse yields
\* [ok, val, rest]; ok = FALSE is the SyntaxError.

JsonFail == [ok |-> FALSE, val |-> Undefined, rest |-> << >>]
JsonOk(val, rest) == [ok |-> TRUE, val |-> val, rest |-> rest]

RECURSIVE SkipWs(_)
SkipWs(s) == IF s # << >> /\ Head(s) \in { " ", LF } THEN SkipWs(Tail(s)) ELSE s

RECURSIVE ParseDigits(_, _)
ParseDigits(s, acc) ==
  IF s # << >> /\ Head(s) \in Digits
  THEN ParseDigits(Tail(s), 10 * acc + (CharCode(Head(s)) - 48))
  ELSE JsonOk(Num(acc), s)

\* s starts with a digit; a leading 0 is the whole number
ParseNumber(s) == IF Head(s) = "0" THEN JsonOk(Num(0), Tail(s)) ELSE ParseDigits(s, 0)

\* s follows the opening quote; acc the characters read so far
RECURSIVE ParseStringTail(_, _)
ParseStringTail(s, acc) ==
  IF s = << >> THEN JsonFail
  ELSE IF Head(s) = "\"" THEN JsonOk(Str(acc), Tail(s))
  ELSE IF Head(s) = LF THEN JsonFail
  ELSE IF Head(s) = "\\" THEN
    IF Len(s) < 2 THEN JsonFail
    ELSE IF s[2] \in { "\"", "\\", "/" } THEN ParseStringTail(Drop(s, 2), Append(acc, s[2]))
    ELSE IF s[2] = "n" THEN ParseStringTail(Drop(s, 2), Append(acc, LF))
    ELSE JsonFail
  ELSE ParseStringTail(Tail(s), Append(acc, Head(s)))

\* CreateDataProperty: a repeated key keeps its place and takes the new value
SetProperty(ps, k, val) ==
  IF \E n \in DOMAIN ps : ps[n][1] = k
  THEN [ n \in DOMAIN ps |-> IF ps[n][1] = k THEN << k, val >> ELSE ps[n] ]
  ELSE Append(ps, << k, val >>)

RECURSIVE ParseValue(_)
RECURSIVE ParseElements(_, _)
RECURSIVE ParseMembers(_, _)

\* s follows "[" or ","; acc the elements read so far
ParseElements(s, acc) ==
  LET e == ParseValue(s)
      r == SkipWs(e.rest)
  IN  IF ~e.ok \/ r = << >> THEN JsonFail
      ELSE IF Head(r) = "," THEN ParseElements(Tail(r), Append(acc, e.val))
      ELSE IF Head(r) = "]" THEN JsonOk(Arr(Append(acc, e.val)), Tail(r))
      ELSE JsonFail

\* s follows "{" or ","; acc the members read so far
ParseMembers(s, acc) ==
  LET s1 == SkipWs(s)
      k == IF s1 # << >> /\ Head(s1) = "\"" THEN ParseStringTail(Tail(s1), << >>) ELSE JsonFail
      s2 == SkipWs(k.rest)
      m == IF k.ok /\ s2 # << >> /\ Head(s2) = ":" THEN ParseValue(Tail(s2)) ELSE JsonFail
      r == SkipWs(m.rest)
  IN  IF ~m.ok \/ r = << >> THEN JsonFail
      ELSE IF Head(r) = "," THEN ParseMembers(Tail(r), SetProperty(acc, k.val.v, m.val))
      ELSE IF Head(r) = "}" THEN JsonOk(Obj(SetProperty(acc, k.val.v, m.val)), Tail(r))
      ELSE JsonFail

ParseValue(s) ==
  LET s1 == SkipWs(s)
  IN  IF s1 = << >> THEN JsonFail
      ELSE IF Head(s1) = "\"" THEN ParseStringTail(Tail(s1), << >>)
      ELSE IF Head(s1) \in Digits THEN ParseNumber(s1)
      ELSE IF StartsWith(s1, << "n", "u", "l", "l" >>) THEN JsonOk(Null, Drop(s1, 4))
      ELSE IF StartsWith(s1, << "t", "r", "u", "e" >>) THEN JsonOk(Bool(TRUE), Drop(s1, 4))
      ELSE IF StartsWith(s1, << "f", "a", "l", "s", "e" >>) THEN JsonOk(Bool(FALSE), Drop(s1, 5))
      ELSE IF Head(s1) = "[" THEN
        IF SkipWs(Tail(s1)) # << >> /\ Head(SkipWs(Tail(s1))) = "]"
        THEN JsonOk(Arr(<< >>), Tail(SkipWs(Tail(s1))))
        ELSE ParseElements(Tail(s1), << >>)
      ELSE IF Head(s1) = "{" THEN
        IF SkipWs(Tail(s1)) # << >> /\ Head(SkipWs(Tail(s1))) = "}"
        THEN JsonOk(Obj(<< >>), Tail(SkipWs(Tail(s1))))
        ELSE ParseMembers(Tail(s1), << >>)
      ELSE JsonFail

\* JSON.parse(text): one value, then nothing but white space
JSONparse(text) ==
  LET p == ParseValue(text)
  IN  IF p.ok /\ SkipWs(p.rest) = << >> THEN JsonOk(p.val, << >>) ELSE JsonFail

\* ------------------------------------------------------------ JSON.stringify

\* QuoteJSONString
QuoteChar(c) ==
  IF c = "\"" THEN << "\\", "\"" >>
  ELSE IF c = "\\" THEN << "\\", "\\" >>
  ELSE IF c = LF THEN << "\\", "n" >>
  ELSE IF c = LoneSurrogate THEN << "\\", "u", "d", "8", "0", "0" >>
  ELSE << c >>

QuoteJSONString(s) == << "\"" >> \o Flatten([ n \in DOMAIN s |-> QuoteChar(s[n]) ]) \o << "\"" >>

\* SerializeJSONProperty: gap is the indentation unit ("" for none), indent
\* the current indentation.  A property whose value is undefined is left
\* out of an object.
RECURSIVE Serialize(_, _, _)
Serialize(val, gap, indent) ==
  LET inner == indent \o gap
      sep == IF gap = << >> THEN << "," >> ELSE << ",", LF >> \o inner
      wrap(open, parts, close) ==
        IF parts = << >> THEN << open, close >>
        ELSE IF gap = << >> THEN << open >> \o Join(parts, sep) \o << close >>
        ELSE << open, LF >> \o inner \o Join(parts, sep) \o << LF >> \o indent \o << close >>
  IN  CASE val.t = "null" -> << "n", "u", "l", "l" >>
        [] val.t = "boolean" ->
             IF val.v THEN << "t", "r", "u", "e" >> ELSE << "f", "a", "l", "s", "e" >>
        [] val.t = "number" -> Decimal(val.v)
        [] val.t = "string" -> QuoteJSONString(val.v)
        [] val.t = "array" ->
             wrap("[",
                  [ n \in DOMAIN val.v |->
                      IF val.v[n].t = "undefined" THEN << "n", "u", "l", "l" >>
                      ELSE Serialize(val.v[n], gap, inner) ],
                  "]")
        [] val.t = "object" ->
             LET kept == SelectSeq(val.v, LAMBDA p : p[2].t # "undefined")
             IN  wrap("{",
                      [ n \in DOMAIN kept |->
                          QuoteJSONString(kept[n][1])
                            \o (IF gap = << >> THEN << ":" >> ELSE << ":", " " >>)
                            \o Serialize(kept[n][2], gap, inner) ],
                      "}")

\* JSON.stringify(value) and JSON.stringify(value, null, 2), value not undefined
JSONstringify(val) == Serialize(val, << >>, << >>)
JSONstringify2(val) == Serialize(val, << " ", " " >>, << >>)

\* ------------------------------------------------------------- LocoClient

BASE_URL == << "h", "t", "t", "p", "s", ":", "/", "/", "l", "o", "c", "a", "l", "i", "s", "e", ".", "b", "i", "z", "/", "a", "p", "i" >>

\* LocoClient with one ambient credential in place of the one supplied
LocoClientAmbient(apiKey) == [apiKey |-> << "k", "1" >>, baseUrl |-> BASE_URL]

\* new LocoClient(apiKey): baseUrl takes its default
LocoClient(apiKey) == [apiKey |-> apiKey, baseUrl |-> BASE_URL]

\* What an adapter method has done when it first awaits: it threw before any
\* fetch, or it called fetch(url, options) once.
JsError(name, message) == [name |-> name, message |-> message]
NoError == JsError("", << >>)

Threw(e) == [threw |-> TRUE, error |-> e, fetch |-> << >>]
Fetched(options) == [threw |-> FALSE, error |-> NoError, fetch |-> << options >>]
URIError == JsError("URIError", << "U", "R", "I", " ", "m", "a", "l", "f", "o", "r", "m", "e", "d" >>)

CT_JSON == "application/json"
CT_FORM == "application/x-www-form-urlencoded"
CT_TEXT == "text/plain"

\* The Authorization header of a request of this client
Authorization(this) == << "L", "o", "c", "o", " " >> \o this.apiKey

\* params.append(key, String(value)) for every entry whose value is not
\* undefined, then params.toString()
FormBody(entries) ==
  LET kept == SelectSeq(entries, LAMBDA p : p[2].t # "undefined")
  IN  Join([ n \in DOMAIN kept |-> formEncode(kept[n][1]) \o << "=" >> \o formEncode(kept[n][2].v) ],
           << "&" >>)

\* request with "if (body)" for "if (body !== undefined)": an empty string is
\* no body
requestDropsEmptyBody(this, method, endpoint, body, contentType) ==
  LET hasBody == body.t # "undefined" /\ body # Str(<< >>)
      ct == IF contentType = CT_TEXT THEN CT_TEXT
            ELSE IF contentType = CT_FORM THEN CT_FORM
            ELSE CT_JSON
  IN  [ url |-> this.baseUrl \o endpoint,
        method |-> method,
        headers |-> IF hasBody
                    THEN [Authorization |-> Authorization(this), ContentType |-> << ct >>]
                    ELSE [Authorization |-> Authorization(this), ContentType |-> << >>],
        body |-> IF ~hasBody THEN Undefined
                 ELSE IF ct = CT_TEXT THEN body
                 ELSE IF ct = CT_FORM THEN Str(FormBody(body.v))
                 ELSE Str(JSONstringify(body)) ]

\* LocoClient.request up to its call of fetch: the url and the options.
\* body is Undefined, a string or an object; options.body is Undefined when
\* the request has no body.
request(this, method, endpoint, body, contentType) ==
  LET hasBody == body.t # "undefined"
      ct == IF contentType = CT_TEXT THEN CT_TEXT
            ELSE IF contentType = CT_FORM THEN CT_FORM
            ELSE CT_JSON
  IN  [ url |-> this.baseUrl \o endpoint,
        method |-> method,
        headers |-> IF hasBody
                    THEN [Authorization |-> Authorization(this), ContentType |-> << ct >>]
                    ELSE [Authorization |-> Authorization(this), ContentType |-> << >>],
        body |-> IF ~hasBody THEN Undefined
                 ELSE IF ct = CT_TEXT THEN body
                 ELSE IF ct = CT_FORM THEN Str(FormBody(body.v))
                 ELSE Str(JSONstringify(body)) ]

\* A template literal whose substitutions are encodeURIComponent calls:
\* parts alternates literal text and values to encode, starting with text.
\* Any malformed value throws before request is called.
RECURSIVE Template(_)
Template(parts) ==
  IF parts = << >> THEN << >>
  ELSE IF Len(parts) = 1 THEN parts[1]
  ELSE parts[1] \o encodeURIComponent(parts[2]) \o Template(Drop(parts, 2))

Malformed(parts) == \E n \in DOMAIN parts : n % 2 = 0 /\ UriMalformed(parts[n])

Send(this, method, parts, body, contentType) ==
  IF Malformed(parts) THEN Threw(URIError)
  ELSE Fetched(request(this, method, Template(parts), body, contentType))

\* an empty string is falsy
Truthy(val) == val.t # "undefined" /\ val.v # << >>

\* listAssets with the filter put into the query as it is
listAssetsUnencoded(this, filter) ==
  IF Truthy(filter)
  THEN Send(this, "GET", << << "/", "a", "s", "s", "e", "t", "s", "?", "f", "i", "l", "t", "e", "r", "=" >> \o filter.v >>, Undefined, CT_JSON)
  ELSE Send(this, "GET", << << "/", "a", "s", "s", "e", "t", "s" >> >>, Undefined, CT_JSON)

listAssets(this, filter) ==
  IF Truthy(filter)
  THEN Send(this, "GET", << << "/", "a", "s", "s", "e", "t", "s", "?", "f", "i", "l", "t", "e", "r", "=" >>, filter.v >>, Undefined, CT_JSON)
  ELSE Send(this, "GET", << << "/", "a", "s", "s", "e", "t", "s" >> >>, Undefined, CT_JSON)

getAsset(this, assetId) ==
  Send(this, "GET", << << "/", "a", "s", "s", "e", "t", "s", "/" >>, assetId, << ".", "j", "s", "o", "n" >> >>, Undefined, CT_JSON)

createAsset(this, params) == Send(this, "POST", << << "/", "a", "s", "s", "e", "t", "s" >> >>, params, CT_FORM)

updateAsset(this, assetId, params) ==
  Send(this, "PATCH", << << "/", "a", "s", "s", "e", "t", "s", "/" >>, assetId, << ".", "j", "s", "o", "n" >> >>, params, CT_JSON)

deleteAsset(this, assetId) ==
  Send(this, "DELETE", << << "/", "a", "s", "s", "e", "t", "s", "/" >>, assetId, << ".", "j", "s", "o", "n" >> >>, Undefined, CT_JSON)

getTranslations(this, assetId) ==
  Send(this, "GET", << << "/", "t", "r", "a", "n", "s", "l", "a", "t", "i", "o", "n", "s", "/" >>, assetId, << ".", "j", "s", "o", "n" >> >>, Undefined, CT_JSON)

getTranslation(this, assetId, locale) ==
  Send(this, "GET", << << "/", "t", "r", "a", "n", "s", "l", "a", "t", "i", "o", "n", "s", "/" >>, assetId, << "/" >>, locale >>, Undefined, CT_JSON)

updateTranslation(this, assetId, locale, text) ==
  Send(this, "POST", << << "/", "t", "r", "a", "n", "s", "l", "a", "t", "i", "o", "n", "s", "/" >>, assetId, << "/" >>, locale >>, Str(text), CT_TEXT)

listTags(this) == Send(this, "GET", << << "/", "t", "a", "g", "s" >> >>, Undefined, CT_JSON)

tagAsset(this, assetId, tag) ==
  Send(this, "POST", << << "/", "a", "s", "s", "e", "t", "s", "/" >>, assetId, << "/", "t", "a", "g", "s" >> >>,
       Obj(<< << << "n", "a", "m", "e" >>, Str(tag) >> >>), CT_FORM)

untagAsset(this, assetId, tag) ==
  Send(this, "DELETE", << << "/", "a", "s", "s", "e", "t", "s", "/" >>, assetId, << "/", "t", "a", "g", "s", "/" >>, tag, << ".", "j", "s", "o", "n" >> >>, Undefined, CT_JSON)

\* response.ok
ResponseOk(status) == status \in 200..299

\* new Error(`Loco API error (${response.status}): ${text}`)
ApiError(status, text) ==
  JsError("Error", << "L", "o", "c", "o", " ", "A", "P", "I", " ", "e", "r", "r", "o", "r", " ", "(" >> \o Decimal(status) \o << ")", ":", " " >> \o text)

\* Decode with the body parsed before the status is looked at
DecodeParsesFirst(status, text) ==
  IF JSONparse(text).ok THEN [threw |-> FALSE, error |-> NoError, result |-> JSONparse(text).val]
  ELSE IF ~ResponseOk(status)
  THEN [threw |-> TRUE, error |-> ApiError(status, text), result |-> Undefined]
  ELSE [threw |-> FALSE, error |-> NoError, result |-> Str(text)]

\* Decode without the catch around JSON.parse
DecodeWithoutCatch(status, text) ==
  IF ~ResponseOk(status) THEN [threw |-> TRUE, error |-> ApiError(status, text), result |-> Undefined]
  ELSE IF JSONparse(text).ok THEN [threw |-> FALSE, error |-> NoError, result |-> JSONparse(text).val]
  ELSE [threw |-> TRUE, error |-> JsError("SyntaxError", << "U", "n", "e", "x", "p", "e", "c", "t", "e", "d", " ", "t", "o", "k", "e", "n" >>), result |-> Undefined]

\* LocoClient.request after response.text(): the error thrown, or the
\* decoded result
Decode(status, text) ==
  IF ~ResponseOk(status) THEN [threw |-> TRUE, error |-> ApiError(status, text), result |-> Undefined]
  ELSE IF JSONparse(text).ok THEN [threw |-> FALSE, error |-> NoError, result |-> JSONparse(text).val]
  ELSE [threw |-> FALSE, error |-> NoError, result |-> Str(text)]

\* ToolResult with a string result passed through as it is
ToolResultRawString(result) ==
  << [type |-> "text", text |-> IF result.t = "string" THEN result.v ELSE JSONstringify2(result)] >>

\* what every handler returns: { content: [{ type: "text", text: JSON.stringify(result, null, 2) }] }
ToolResult(result) == << [type |-> "text", text |-> JSONstringify2(result)] >>

\* ------------------------------------------------------------------ state

Invocations == 1..NumInvocations

VARIABLES
  pc,        \* where each invocation's handler is: idle, fetching (awaiting
             \* fetch), reading (awaiting response.text()), returned, failed
  call,      \* the tool invoked and the parameters the handler received
  client,    \* the handler's local client: << >> or << a LocoClient >>
  sent,      \* the options of every fetch call the invocation has made
  response,  \* the remote service's answer: status (0: none yet) and body text
  result,    \* the handler's local result: << >> or << the decoded value >>
  outcome    \* how the invocation ended: the content returned or the error thrown

vars == << pc, call, client, sent, response, result, outcome >>

NoArgs ==
  [ assetId |-> Undefined, locale |-> Undefined, tag |-> Undefined, text |-> Undefined,
    filter |-> Undefined, id |-> Undefined, newId |-> Undefined, context |-> Undefined,
    notes |-> Undefined ]

NoCall == [tool |-> "", apiKey |-> << >>, args |-> NoArgs]
NoResponse == [status |-> 0, text |-> Undefined]
Pending == [kind |-> "pending", content |-> << >>, error |-> NoError]
Returned(content) == [kind |-> "return", content |-> content, error |-> NoError]
Thrown(e) == [kind |-> "throw", content |-> << >>, error |-> e]

Init ==
  /\ pc = [i \in Invocations |-> "idle"]
  /\ call = [i \in Invocations |-> NoCall]
  /\ client = [i \in Invocations |-> << >>]
  /\ sent = [i \in Invocations |-> << >>]
  /\ response = [i \in Invocations |-> NoResponse]
  /\ result = [i \in Invocations |-> << >>]
  /\ outcome = [i \in Invocations |-> Pending]

\* A handler from its entry to its first suspension: it constructs its client
\* and calls one adapter method, which throws or calls fetch and awaits it.
Begin(i, tool, apiKey, args, this, done) ==
  /\ pc[i] = "idle"
  /\ call' = [call EXCEPT ![i] = [tool |-> tool, apiKey |-> apiKey, args |-> args]]
  /\ client' = [client EXCEPT ![i] = << this >>]
  /\ sent' = [sent EXCEPT ![i] = sent[i] \o done.fetch]
  /\ pc' = [pc EXCEPT ![i] = IF done.threw THEN "failed" ELSE "fetching"]
  /\ outcome' = [outcome EXCEPT ![i] = IF done.threw THEN Thrown(done.error) ELSE Pending]
  /\ UNCHANGED << response, result >>

list_assets(i, apiKey, filter) ==
  LET this == LocoClient(apiKey)
  IN  Begin(i, "list_assets", apiKey, [NoArgs EXCEPT !.filter = filter], this,
            listAssets(this, filter))

get_asset(i, apiKey, assetId) ==
  LET this == LocoClient(apiKey)
  IN  Begin(i, "get_asset", apiKey, [NoArgs EXCEPT !.assetId = Str(assetId)], this,
            getAsset(this, assetId))

create_asset(i, apiKey, id, text, context, notes) ==
  LET this == LocoClient(apiKey)
  IN  Begin(i, "create_asset", apiKey,
            [NoArgs EXCEPT !.id = id, !.text = text, !.context = context, !.notes = notes],
            this,
            createAsset(this, Obj(<< << << "i", "d" >>, id >>, << << "t", "e", "x", "t" >>, text >>,
                                     << << "t", "y", "p", "e" >>, Str(<< "t", "e", "x", "t" >>) >>,
                                     << << "c", "o", "n", "t", "e", "x", "t" >>, context >>, << << "n", "o", "t", "e", "s" >>, notes >> >>)))

update_asset(i, apiKey, assetId, newId, context, notes) ==
  LET this == LocoClient(apiKey)
  IN  Begin(i, "update_asset", apiKey,
            [NoArgs EXCEPT !.assetId = Str(assetId), !.newId = newId, !.context = context,
                           !.notes = notes],
            this,
            updateAsset(this, assetId,
                        Obj(<< << << "i", "d" >>, newId >>, << << "t", "y", "p", "e" >>, Str(<< "t", "e", "x", "t" >>) >>,
                               << << "c", "o", "n", "t", "e", "x", "t" >>, context >>, << << "n", "o", "t", "e", "s" >>, notes >> >>)))

delete_asset(i, apiKey, assetId) ==
  LET this == LocoClient(apiKey)
  IN  Begin(i, "delete_asset", apiKey, [NoArgs EXCEPT !.assetId = Str(assetId)], this,
            deleteAsset(this, assetId))

get_translations(i, apiKey, assetId) ==
  LET this == LocoClient(apiKey)
  IN  Begin(i, "get_translations", apiKey, [NoArgs EXCEPT !.assetId = Str(assetId)], this,
            getTranslations(this, assetId))

get_translation(i, apiKey, assetId, locale) ==
  LET this == LocoClient(apiKey)
  IN  Begin(i, "get_translation", apiKey,
            [NoArgs EXCEPT !.assetId = Str(assetId), !.locale = Str(locale)], this,
            getTranslation(this, assetId, locale))

update_translation(i, apiKey, assetId, locale, text) ==
  LET this == LocoClient(apiKey)
  IN  Begin(i, "update_translation", apiKey,
            [NoArgs EXCEPT !.assetId = Str(assetId), !.locale = Str(locale), !.text = Str(text)],
            this,
            updateTranslation(this, assetId, locale, text))

list_tags(i, apiKey) ==
  LET this == LocoClient(apiKey)
  IN  Begin(i, "list_tags", apiKey, NoArgs, this, listTags(this))

tag_asset(i, apiKey, assetId, tag) ==
  LET this == LocoClient(apiKey)
  IN  Begin(i, "tag_asset", apiKey, [NoArgs EXCEPT !.assetId = Str(assetId), !.tag = Str(tag)],
            this, tagAsset(this, assetId, tag))

untag_asset(i, apiKey, assetId, tag) ==
  LET this == LocoClient(apiKey)
  IN  Begin(i, "untag_asset", apiKey, [NoArgs EXCEPT !.assetId = Str(assetId), !.tag = Str(tag)],
            this, untagAsset(this, assetId, tag))

\* fetch resolves with a response of some status
FetchResolve(i, status) ==
  /\ pc[i] = "fetching"
  /\ pc' = [pc EXCEPT ![i] = "reading"]
  /\ response' = [response EXCEPT ![i] = [status |-> status, text |-> Undefined]]
  /\ UNCHANGED << call, client, sent, result, outcome >>

\* FetchReject with one more attempt after a failure
FetchRejectRetries(i) ==
  /\ pc[i] = "fetching"
  /\ Len(sent[i]) < 2
  /\ sent' = [sent EXCEPT ![i] = sent[i] \o sent[i]]
  /\ UNCHANGED << pc, call, client, response, result, outcome >>

\* fetch rejects (connection or DNS failure): nothing catches the rejection
FetchReject(i) ==
  /\ pc[i] = "fetching"
  /\ pc' = [pc EXCEPT ![i] = "failed"]
  /\ outcome' = [outcome EXCEPT ![i] = Thrown(JsError("TypeError", << "f", "e", "t", "c", "h", " ", "f", "a", "i", "l", "e", "d" >>))]
  /\ UNCHANGED << call, client, sent, response, result >>

\* response.text() resolves: request throws or decodes, and the handler wraps
\* the decoded result and returns
TextResolve(i, text) ==
  LET d == Decode(response[i].status, text)
  IN  /\ pc[i] = "reading"
      /\ response' = [response EXCEPT ![i].text = Str(text)]
      /\ pc' = [pc EXCEPT ![i] = IF d.threw THEN "failed" ELSE "returned"]
      /\ result' = [result EXCEPT ![i] = IF d.threw THEN << >> ELSE << d.result >>]
      /\ outcome' = [outcome EXCEPT ![i] =
                       IF d.threw THEN Thrown(d.error) ELSE Returned(ToolResult(d.result))]
      /\ UNCHANGED << call, client, sent >>

\* response.text() rejects (the body stream breaks)
TextReject(i) ==
  /\ pc[i] = "reading"
  /\ pc' = [pc EXCEPT ![i] = "failed"]
  /\ outcome' = [outcome EXCEPT ![i] = Thrown(JsError("TypeError", << "t", "e", "r", "m", "i", "n", "a", "t", "e", "d" >>))]
  /\ UNCHANGED << call, client, sent, response, result >>

\* The host takes the invocation's outcome; the handler's frame, its client
\* and its result with it, is gone, and the slot takes a later invocation.
Settle(i) ==
  /\ pc[i] \in { "returned", "failed" }
  /\ pc' = [pc EXCEPT ![i] = "idle"]
  /\ call' = [call EXCEPT ![i] = NoCall]
  /\ client' = [client EXCEPT ![i] = << >>]
  /\ sent' = [sent EXCEPT ![i] = << >>]
  /\ response' = [response EXCEPT ![i] = NoResponse]
  /\ result' = [result EXCEPT ![i] = << >>]
  /\ outcome' = [outcome EXCEPT ![i] = Pending]

\* ------------------------------------------------------------------ inputs

\* every string over alphabet of length at most n
RECURSIVE StringsUpTo(_, _)
StringsUpTo(alphabet, n) ==
  IF n = 0 THEN { << >> }
  ELSE LET shorter == StringsUpTo(alphabet, n - 1)
       IN  shorter \cup { Append(s, c) : s \in shorter, c \in alphabet }

\* an optional string parameter: absent, or one of the values
Opt(values) == { Undefined } \cup { Str(s) : s \in values }

PathAlphabet == { "a", "/", "%", LoneSurrogate }
BodyAlphabet == { "1", "[", "]", "\"", "K" }

\* {"a":[1,"K\""],"b":{}}
BodyObject == << "{", "\"", "a", "\"", ":", "[", "1", ",", "\"", "K", "\\", "\"", "\"", "]", ",", "\"", "b", "\"", ":", "{", "}", "}" >>
\* the body with white space around its tokens
BodySpaced == << " ", "[", "1", ",", LF, "n", "u", "l", "l", " ", "]", LF >>

SampleBodies ==
  { BodyObject, BodySpaced, << "O", "K" >>, << "n", "u", "l", "l" >>, << "t", "r", "u", "e" >>, << "\"", "a", "\\", "\\", "b", "\"" >>, << "{", "\"", "a", "\"", ":", "1", ",", "\"", "a", "\"", ":", "2", "}" >>, << "{", "\"", "a", "\"", ":", "1", "}", "x" >>,
    << "[", "[", "]", ",", "{", "}", "]" >>, << "0", "1" >> }

\* What the invocations and the remote service may do: the API key each
\* invocation slot may carry, the values of each parameter, the statuses
\* and the bodies of the responses.
RequestUniverse ==
  [ keys |-> [i \in Invocations |-> { << "k", "1" >> }],
    ids |-> StringsUpTo(PathAlphabet, MaxIdLen) \cup { << "a", " ", "b" >>, << "g", "r", "e", "e", "t", "i", "n", "g" >> },
    locales |-> { << "f", "r" >>, << "a", "/" >> },
    tags |-> { << "u", "r", "g", "e", "n", "t" >>, << "%" >> },
    texts |-> { << >>, << "W", "e", "l", "c", "o", "m", "e" >>, << LoneSurrogate >> },
    filters |-> { << >>, << "o", "n", "b", "o", "a", "r", "d", "i", "n", "g", ",", "!", "d", "r", "a", "f", "t" >>, << "a", " ", "b" >>, << LoneSurrogate >> },
    opts |-> { << >>, << "a", "&", "b", "=", " " >> },
    statuses |-> { 200, 404 },
    bodies |-> { << "1" >> } ]

ResponseUniverse ==
  [ keys |-> [i \in Invocations |-> { << "k", "1" >> }],
    ids |-> { << "a" >> },
    locales |-> { << "f", "r" >> },
    tags |-> { << "t" >> },
    texts |-> { << >> },
    filters |-> { << "a" >> },
    opts |-> { },
    statuses |-> { 200, 204, 299, 300, 404, 500 },
    bodies |-> StringsUpTo(BodyAlphabet, MaxBodyLen) \cup SampleBodies ]

\* concurrent invocations, each slot with an API key of its own
ConcurrentUniverse ==
  [ keys |-> [i \in Invocations |-> { << "k" >> \o Decimal(i) }],
    ids |-> { << "a" >> },
    locales |-> { << "f", "r" >> },
    tags |-> { << "t" >> },
    texts |-> { << >> },
    filters |-> { },
    opts |-> { },
    statuses |-> { 200 },
    bodies |-> { << "1" >> } ]

\* ---------------------------------------------------------- specifications

Handlers(i, U) ==
  \/ \E k \in U.keys[i], f \in Opt(U.filters) : list_assets(i, k, f)
  \/ \E k \in U.keys[i], a \in U.ids : get_asset(i, k, a)
  \/ \E k \in U.keys[i], id \in Opt(U.opts), tx \in Opt(U.texts), cx \in Opt(U.opts),
        nt \in Opt(U.opts) : create_asset(i, k, id, tx, cx, nt)
  \/ \E k \in U.keys[i], a \in U.ids, id \in Opt(U.opts), cx \in Opt(U.opts),
        nt \in Opt(U.opts) : update_asset(i, k, a, id, cx, nt)
  \/ \E k \in U.keys[i], a \in U.ids : delete_asset(i, k, a)
  \/ \E k \in U.keys[i], a \in U.ids : get_translations(i, k, a)
  \/ \E k \in U.keys[i], a \in U.ids, l \in U.locales : get_translation(i, k, a, l)
  \/ \E k \in U.keys[i], a \in U.ids, l \in U.locales, tx \in U.texts :
        update_translation(i, k, a, l, tx)
  \/ \E k \in U.keys[i] : list_tags(i, k)
  \/ \E k \in U.keys[i], a \in U.ids, g \in U.tags : tag_asset(i, k, a, g)
  \/ \E k \in U.keys[i], a \in U.ids, g \in U.tags : untag_asset(i, k, a, g)

\* serial: the host dispatches an invocation only when no other is in progress
Step(U, serial) ==
  \E i \in Invocations :
    \/ (serial => \A j \in Invocations \ { i } : pc[j] = "idle") /\ Handlers(i, U)
    \/ \E status \in U.statuses : FetchResolve(i, status)
    \/ FetchReject(i)
    \/ \E text \in U.bodies : TextResolve(i, text)
    \/ TextReject(i)
    \/ Settle(i)

Next == Step(ConcurrentUniverse, FALSE)
NextRequest == Step(RequestUniverse, TRUE)
NextResponse == Step(ResponseUniverse, TRUE)

Spec == Init /\ [][Next]_vars
SpecRequest == Init /\ [][NextRequest]_vars
SpecResponse == Init /\ [][NextResponse]_vars

\* ------------------------------------------------------------ observations

\* the path and query a request was sent to, below the base URL
Endpoint(options) == Drop(options.url, Len(BASE_URL))

Supplied(val) == val.t # "undefined"

\* the tools whose path holds an identifier, a locale code or a tag name
PathTools ==
  { "get_asset", "update_asset", "delete_asset", "get_translations", "get_translation",
    "update_translation", "tag_asset", "untag_asset" }

\* the '/'-separated segments of the tool's path pattern, with the values
\* of the call in the places of {id}, {locale} and {tag}
PatternSegments(c) ==
  LET a == c.args
  IN  CASE c.tool \in { "get_asset", "update_asset", "delete_asset" } ->
             << << >>, << "a", "s", "s", "e", "t", "s" >>, a.assetId.v \o << ".", "j", "s", "o", "n" >> >>
        [] c.tool = "get_translations" -> << << >>, << "t", "r", "a", "n", "s", "l", "a", "t", "i", "o", "n", "s" >>, a.assetId.v \o << ".", "j", "s", "o", "n" >> >>
        [] c.tool \in { "get_translation", "update_translation" } ->
             << << >>, << "t", "r", "a", "n", "s", "l", "a", "t", "i", "o", "n", "s" >>, a.assetId.v, a.locale.v >>
        [] c.tool = "tag_asset" -> << << >>, << "a", "s", "s", "e", "t", "s" >>, a.assetId.v, << "t", "a", "g", "s" >> >>
        [] c.tool = "untag_asset" ->
             << << >>, << "a", "s", "s", "e", "t", "s" >>, a.assetId.v, << "t", "a", "g", "s" >>, a.tag.v \o << ".", "j", "s", "o", "n" >> >>

\* the values of the call that go into its path
PathValues(c) ==
  LET a == c.args
  IN  CASE c.tool \in { "get_translation", "update_translation" } -> { a.assetId.v, a.locale.v }
        [] c.tool = "untag_asset" -> { a.assetId.v, a.tag.v }
        [] OTHER -> { a.assetId.v }

WellFormedPath(c) == \A val \in PathValues(c) : ~UriMalformed(val)

\* the path has the pattern's segments, and each decodes to the pattern's
SegmentsRoundTrip(c, options) ==
  LET segs == Split(Endpoint(options), "/")
      want == PatternSegments(c)
  IN  /\ Len(segs) = Len(want)
      /\ \A n \in DOMAIN want : decodeURIComponent(segs[n]) = [ok |-> TRUE, val |-> want[n]]

\* C4: update translation sends POST /translations/{id}/{locale} with
\* Content-Type text/plain and a body that is present and is exactly the text,
\* the empty string included: for text "" the body is "", not absent and not
\* the JSON document of "".
C4_TranslationBodyVerbatim ==
  \A i \in Invocations :
    call[i].tool = "update_translation" =>
      /\ WellFormedPath(call[i]) => Len(sent[i]) = 1
      /\ \A n \in DOMAIN sent[i] :
           LET o == sent[i][n]
           IN  /\ o.method = "POST"
               /\ SegmentsRoundTrip(call[i], o)
               /\ o.headers.ContentType = << "text/plain" >>
               /\ o.body.t = "string"
               /\ o.body.v = call[i].args.text.v
               /\ ( /\ call[i].args.assetId.v = << "g", "r", "e", "e", "t", "i", "n", "g" >>
                    /\ call[i].args.locale.v = << "f", "r" >>
                    /\ call[i].args.text.v = << >> )
                  => /\ Endpoint(o) = << "/", "t", "r", "a", "n", "s", "l", "a", "t", "i", "o", "n", "s", "/", "g", "r", "e", "e", "t", "i", "n", "g", "/", "f", "r" >>
                     /\ o.body = Str(<< >>)
                     /\ o.body.v # << "\"", "\"" >>

C4_Witness ==
  \E i \in Invocations :
    /\ call[i].tool = "update_translation"
    /\ call[i].args.assetId.v = << "g", "r", "e", "e", "t", "i", "n", "g" >>
    /\ call[i].args.locale.v = << "f", "r" >>
    /\ call[i].args.text = Str(<< >>)
    /\ Len(sent[i]) = 1
    /\ sent[i][1].body = Str(<< >>)

\* C5 as stated: for every value of an identifier, locale code or tag name
\* the request goes to a path with the pattern's number of segments, each of
\* which percent-decodes to the original value.
C5_Original ==
  \A i \in Invocations :
    call[i].tool \in PathTools =>
      /\ Len(sent[i]) = 1
      /\ SegmentsRoundTrip(call[i], sent[i][1])

\* C5 amended: that holds for every value without a lone surrogate ('/',
\* space and '%' included); a value with a lone surrogate makes
\* encodeURIComponent throw, the invocation fails with a URIError and no
\* request is sent.  Untag of "urgent" on "a b" issues
\* DELETE /assets/a%20b/tags/urgent.json.
C5_PathRoundTrip ==
  \A i \in Invocations :
    call[i].tool \in PathTools =>
      IF WellFormedPath(call[i])
      THEN /\ Len(sent[i]) = 1
           /\ SegmentsRoundTrip(call[i], sent[i][1])
           /\ ( /\ call[i].tool = "untag_asset"
                /\ call[i].args.assetId.v = << "a", " ", "b" >>
                /\ call[i].args.tag.v = << "u", "r", "g", "e", "n", "t" >> )
              => /\ sent[i][1].method = "DELETE"
                 /\ Endpoint(sent[i][1]) = << "/", "a", "s", "s", "e", "t", "s", "/", "a", "%", "2", "0", "b", "/", "t", "a", "g", "s", "/", "u", "r", "g", "e", "n", "t", ".", "j", "s", "o", "n" >>
      ELSE /\ sent[i] = << >>
           /\ pc[i] = "failed"
           /\ outcome[i].kind = "throw"
           /\ outcome[i].error.name = "URIError"

C5_Witness ==
  \E i \in Invocations :
    /\ call[i].tool = "untag_asset"
    /\ call[i].args.assetId.v = << "/", "%" >>
    /\ call[i].args.tag.v = << "%" >>
    /\ Len(sent[i]) = 1

\* C6 as stated: list assets with filter "onboarding,!draft" requests
\* /assets?filter=onboarding%2C%21draft, ',' and '!' both escaped.
C6_Original ==
  \A i \in Invocations :
    ( /\ call[i].tool = "list_assets"
      /\ call[i].args.filter = Str(<< "o", "n", "b", "o", "a", "r", "d", "i", "n", "g", ",", "!", "d", "r", "a", "f", "t" >>)
      /\ Len(sent[i]) = 1 )
    => Endpoint(sent[i][1]) = << "/", "a", "s", "s", "e", "t", "s", "?", "f", "i", "l", "t", "e", "r", "=", "o", "n", "b", "o", "a", "r", "d", "i", "n", "g", "%", "2", "C", "%", "2", "1", "d", "r", "a", "f", "t" >>

\* C6 amended: list assets with a non-empty filter without a lone surrogate
\* issues GET /assets?filter=<v> where <v> is encodeURIComponent of the
\* filter: ',' is escaped and '!' is left as it is, so "onboarding,!draft"
\* goes to /assets?filter=onboarding%2C!draft, and decoding <v> reproduces
\* the filter.
C6_FilterQuery ==
  \A i \in Invocations :
    ( /\ call[i].tool = "list_assets"
      /\ Truthy(call[i].args.filter)
      /\ ~UriMalformed(call[i].args.filter.v) )
    => /\ Len(sent[i]) = 1
       /\ sent[i][1].method = "GET"
       /\ LET parts == Split(Endpoint(sent[i][1]), "=")
          IN  /\ Len(parts) = 2
              /\ parts[1] = << "/", "a", "s", "s", "e", "t", "s", "?", "f", "i", "l", "t", "e", "r" >>
              /\ "," \notin Range(parts[2])
              /\ decodeURIComponent(parts[2]) = [ok |-> TRUE, val |-> call[i].args.filter.v]
       /\ call[i].args.filter.v = << "o", "n", "b", "o", "a", "r", "d", "i", "n", "g", ",", "!", "d", "r", "a", "f", "t" >>
            => Endpoint(sent[i][1]) = << "/", "a", "s", "s", "e", "t", "s", "?", "f", "i", "l", "t", "e", "r", "=", "o", "n", "b", "o", "a", "r", "d", "i", "n", "g", "%", "2", "C", "!", "d", "r", "a", "f", "t" >>

C6_Witness ==
  \E i \in Invocations :
    /\ call[i].tool = "list_assets"
    /\ call[i].args.filter = Str(<< "o", "n", "b", "o", "a", "r", "d", "i", "n", "g", ",", "!", "d", "r", "a", "f", "t" >>)
    /\ Len(sent[i]) = 1

\* the keys of a query string or form body
FormKeys(s) ==
  IF s = << >> THEN { }
  ELSE { formDecode(Split(pair, "=")[1]).val : pair \in Range(Split(s, "&")) }

\* the value a query string or form body gives for key
FormValue(s, key) ==
  LET pair == CHOOSE pr \in Range(Split(s, "&")) : formDecode(Split(pr, "=")[1]).val = key
  IN  formDecode(Join(Tail(Split(pair, "=")), << "=" >>)).val

QueryString(endpoint) ==
  IF "?" \in Range(endpoint) THEN Join(Tail(Split(endpoint, "?")), << "?" >>) ELSE << >>

JsonKeys(s) == { p[1] : p \in Range(JSONparse(s).val.v) }

JsonValue(s, key) == (CHOOSE p \in Range(JSONparse(s).val.v) : p[1] = key)[2]

\* the optional parameters of a tool: << the key on the wire, the value the
\* caller gave >>
OptionalParameters(c) ==
  CASE c.tool = "list_assets" -> { << << "f", "i", "l", "t", "e", "r" >>, c.args.filter >> }
    [] c.tool = "create_asset" ->
         { << << "i", "d" >>, c.args.id >>, << << "t", "e", "x", "t" >>, c.args.text >>, << << "c", "o", "n", "t", "e", "x", "t" >>, c.args.context >>,
           << << "n", "o", "t", "e", "s" >>, c.args.notes >> }
    [] c.tool = "update_asset" ->
         { << << "i", "d" >>, c.args.newId >>, << << "c", "o", "n", "t", "e", "x", "t" >>, c.args.context >>, << << "n", "o", "t", "e", "s" >>, c.args.notes >> }
    [] OTHER -> { }

\* the keys a request carries in its query, form body or JSON body
RequestKeys(c, options) ==
  CASE c.tool = "list_assets" -> FormKeys(QueryString(Endpoint(options)))
    [] c.tool = "create_asset" -> FormKeys(options.body.v)
    [] c.tool = "update_asset" -> JsonKeys(options.body.v)
    [] OTHER -> { }

\* the string a request carries for key
RequestValue(c, options, key) ==
  CASE c.tool = "list_assets" -> FormValue(QueryString(Endpoint(options)), key)
    [] c.tool = "create_asset" -> FormValue(options.body.v, key)
    [] c.tool = "update_asset" -> JsonValue(options.body.v, key).v

KeyIffSupplied(c, options, p) ==
  /\ Supplied(p[2]) <=> p[1] \in RequestKeys(c, options)
  /\ p[2] = Str(<< >>) => RequestValue(c, options, p[1]) = << >>

\* C7: the request carries an optional parameter's key if and only if the
\* caller supplied the parameter, and a parameter supplied as the empty
\* string is sent with an empty value.
C7_KeyIffSupplied ==
  \A i \in Invocations :
    Len(sent[i]) = 1 =>
      \A p \in OptionalParameters(call[i]) : KeyIffSupplied(call[i], sent[i][1], p)

\* C8: the caller of create_asset or update_asset supplies no type (the
\* tools take none), and the request body then holds no type field.
C8_NoTypeUnlessSupplied ==
  \A i \in Invocations :
    (call[i].tool \in { "create_asset", "update_asset" } /\ Len(sent[i]) = 1)
    => << "t", "y", "p", "e" >> \notin RequestKeys(call[i], sent[i][1])

Received(i) == response[i].text.t = "string"

ErrorPrefix == << "L", "o", "c", "o", " ", "A", "P", "I", " ", "e", "r", "r", "o", "r", " ", "(" >>

\* C1: a response with a status outside 200..299 makes the invocation fail
\* with an error whose message holds that status and then the body text
\* unchanged, whatever the body; nothing is decoded or returned.
C1_ErrorCarriesStatusAndBody ==
  \A i \in Invocations :
    (Received(i) /\ response[i].status \notin 200..299) =>
      /\ pc[i] = "failed"
      /\ outcome[i].kind = "throw"
      /\ outcome[i].content = << >>
      /\ result[i] = << >>
      /\ LET msg == outcome[i].error.message
             status == ParseDigits(Drop(msg, Len(ErrorPrefix)), 0)
         IN  /\ StartsWith(msg, ErrorPrefix)
             /\ status.val = Num(response[i].status)
             /\ status.rest = << ")", ":", " " >> \o response[i].text.v

C1_Witness ==
  \E i \in Invocations :
    /\ response[i] = [status |-> 404, text |-> Str(BodyObject)]
    /\ pc[i] = "failed"

\* C2: a response with a success status makes the invocation succeed with
\* the parsed structure when the body parses as JSON and with the body text
\* itself when it does not, the empty body included.
C2_DecodeOrRaw ==
  \A i \in Invocations :
    (Received(i) /\ response[i].status \in 200..299) =>
      LET text == response[i].text.v
      IN  /\ pc[i] = "returned"
          /\ outcome[i].kind = "return"
          /\ Len(result[i]) = 1
          /\ JSONparse(text).ok => result[i][1] = JSONparse(text).val
          /\ ~JSONparse(text).ok => result[i][1] = Str(text)
          /\ text \in { << >>, << "O", "K" >>, << "0", "1" >>, << "{", "\"", "a", "\"", ":", "1", "}", "x" >>, << "[" >> } => result[i][1] = Str(text)
          /\ text = BodyObject =>
               result[i][1] = Obj(<< << << "a" >>, Arr(<< Num(1), Str(<< "K", "\"" >>) >>) >>,
                                     << << "b" >>, Obj(<< >>) >> >>)
          /\ text = BodySpaced => result[i][1] = Arr(<< Num(1), Null >>)

C2_Witness ==
  \E i \in Invocations :
    /\ response[i] = [status |-> 204, text |-> Str(<< >>)]
    /\ pc[i] = "returned"
    /\ result[i] = << Str(<< >>) >>

C3_Original ==
  \A i \in Invocations :
    /\ call[i].tool # "" => Len(sent[i]) = 1
    /\ pc[i] = "returned" <=> outcome[i].kind = "return"
    /\ pc[i] = "failed" <=> outcome[i].kind = "throw"

\* a value that goes into the path or the query holds a lone surrogate
MalformedCall(c) ==
  \/ c.tool \in PathTools /\ ~WellFormedPath(c)
  \/ c.tool = "list_assets" /\ Truthy(c.args.filter) /\ UriMalformed(c.args.filter.v)

C3_States ==
  \A i \in Invocations :
    /\ Len(sent[i]) <= 1
    /\ pc[i] \in { "fetching", "reading", "returned" } => Len(sent[i]) = 1
    /\ (pc[i] = "failed" /\ sent[i] = << >>) =>
         /\ outcome[i].error = URIError
         /\ MalformedCall(call[i])
    /\ (call[i].tool # "" /\ ~MalformedCall(call[i])) => Len(sent[i]) = 1
    /\ pc[i] = "returned" <=> outcome[i].kind = "return"
    /\ pc[i] = "failed" <=> outcome[i].kind = "throw"
    /\ outcome[i].kind = "return" =>
         /\ Len(outcome[i].content) = 1
         /\ Len(result[i]) = 1
         /\ Received(i)
         /\ ResponseOk(response[i].status)
         /\ outcome[i].error = NoError
    /\ outcome[i].kind = "throw" =>
         /\ outcome[i].content = << >>
         /\ result[i] = << >>
         /\ outcome[i].error # NoError
    /\ (Received(i) /\ ~ResponseOk(response[i].status)) => outcome[i].kind = "throw"

C3_Steps ==
  \A i \in Invocations :
    /\ sent[i] # << >> => (sent'[i] = sent[i] \/ (pc[i] \in { "returned", "failed" } /\ pc'[i] = "idle"))
    /\ pc[i] \in { "returned", "failed" } =>
         \/ pc'[i] = "idle" /\ sent'[i] = << >>
         \/ pc'[i] = pc[i] /\ sent'[i] = sent[i] /\ outcome'[i] = outcome[i]

\* C3 amended: an invocation issues at most one request: exactly one once
\* its adapter operation has called request, and none when an identifier,
\* locale, tag or filter with a lone surrogate makes encodeURIComponent throw
\* first.
\* It ends in one result or one error; a network failure or a non-success
\* status ends it in an error with no request issued again, no error becomes
\* a result, and nothing is requested after it has ended.
C3_SingleRequestSingleOutcome == [] C3_States /\ [][C3_Steps]_vars

C3_Witness ==
  \E i \in Invocations :
    /\ pc[i] = "failed"
    /\ Len(sent[i]) = 1
    /\ Received(i)
    /\ response[i].status = 404
    /\ outcome[i].kind = "throw"

\* C9: every request carries Authorization: Loco <apiKey> with the API key
\* of the invocation that issued it, whatever the other invocations in
\* progress carry; a credential lives only in the client of the invocation
\* that received it, and is gone when the invocation is.
C9_OwnCredential ==
  \A i \in Invocations :
    /\ \A n \in DOMAIN sent[i] :
         /\ sent[i][n].headers.Authorization = << "L", "o", "c", "o", " " >> \o call[i].apiKey
         /\ \A j \in Invocations :
              call[j].apiKey # call[i].apiKey
                => sent[i][n].headers.Authorization # << "L", "o", "c", "o", " " >> \o call[j].apiKey
    /\ \A n \in DOMAIN client[i] : client[i][n].apiKey = call[i].apiKey
    /\ pc[i] # "idle" => Len(client[i]) = 1
    /\ pc[i] = "idle" => client[i] = << >> /\ sent[i] = << >> /\ call[i] = NoCall

C9_Witness ==
  \E i, j \in Invocations :
    /\ pc[i] = "fetching" /\ pc[j] = "fetching"
    /\ call[i].apiKey = << "k", "1" >> /\ call[j].apiKey = << "k", "2" >>
    /\ sent[i][1].headers.Authorization = << "L", "o", "c", "o", " ", "k", "1" >>
    /\ sent[j][1].headers.Authorization = << "L", "o", "c", "o", " ", "k", "2" >>

====
